---------------------------- MODULE Spec2Model ----------------------------
(***************************************************************************)
(* A model of the Valmiki Ramayanam JSON -> TeX generators:                *)
(*   scripts/generate_tex.py  (driver run/process_file, title index,       *)
(*                             macro segmenter, document assembler)        *)
(*   src/generate_tex.py      (clean_shloka_line, determine_macro)         *)
(* Text is modelled as sequences of one-character tokens; characters that  *)
(* are not ASCII are written as named tokens (DDANDA, DANDA, DEV1, ...).   *)
(***************************************************************************)
EXTENDS Integers, Sequences, FiniteSets, TLC

VARIABLES
    \* --- build_macro_segments (scripts/generate_tex.py) ---
    bms_lines,      \* the argument `lines`
    bms_segments,   \* the returned list of (macro_name, segment_lines)
    bms_calls,      \* number of calls made (0 or 1)
    \* --- clean_shloka_line (src/generate_tex.py) ---
    csl_line,       \* the line first handed to clean_shloka_line
    csl_outs,       \* successive results: clean(line), clean(clean(line))
    \* --- normalise_slug (scripts/generate_tex.py) ---
    ns_value,       \* the string first handed to normalise_slug
    ns_outs,        \* successive results
    \* --- one chapter through process_file (scripts/generate_tex.py) ---
    tex_records,    \* the chapter's records: line count and declared number
    tex_out,        \* what process_file did with the chapter
    tex_calls,      \* number of calls made (0 or 1)
    \* --- main/run (scripts/generate_tex.py) ---
    data_dir_exists, \* whether --data-dir exists
    data_files,     \* the files below --data-dir: path -> content
    map_file,       \* the --map-file: missing, unparseable, or its payload
    out_files,      \* the files below --output-dir: path -> content
    args_overwrite,      \* the --overwrite flag of the current run
    pc,             \* where main is: idle, map, loop, exited
    run_title_index,    \* run's local title_index
    queue,          \* the paths iter_data_files yields
    file_idx,            \* position in queue of the next file to process
    processed,      \* run's local counter
    exit_status,    \* the exit status of the last run
    runs,           \* number of runs started
    clock,            \* the clock datetime.utcnow() reads
    written,        \* the output paths write_text was called on in this run
    last,           \* what the last call of process_file did
    \* --- TitleIndex (scripts/generate_tex.py) ---
    ti_nodes,       \* the chapter nodes of the metadata tree, in document order
    ti_shape,       \* the mappings and lists that hold them
    ti_index,       \* the TitleIndex built from the tree
    ti_calls,       \* number of scans made (0 or 1)
    \* --- tex_escape (scripts/generate_tex.py) ---
    esc_values,     \* two strings handed to tex_escape
    esc_outs,       \* their escaped forms, once computed
    \* --- extract_shloka_lines (scripts/generate_tex.py) ---
    esl_fields,     \* what each field of the record holds, the fallback field first
    esl_lines,      \* the returned lines
    esl_calls,      \* number of calls made (0 or 1)
    \* --- write_sarga_tex (src/generate_tex.py) ---
    ws_records,     \* the records of the chapter file: text and shloka_num
    ws_out,         \* the text written to the chapter's TeX file
    ws_calls        \* number of calls made (0 or 1)

bmsVars == <<bms_lines, bms_segments, bms_calls>>
cslVars == <<csl_line, csl_outs>>
nsVars  == <<ns_value, ns_outs>>
texVars == <<tex_records, tex_out, tex_calls>>
driverVars == <<data_dir_exists, data_files, map_file, out_files, args_overwrite, pc,
                run_title_index, queue, file_idx, processed, exit_status, runs, clock,
                written, last>>
tiVars == <<ti_nodes, ti_shape, ti_index, ti_calls>>
escVars == <<esc_values, esc_outs>>
eslVars == <<esl_fields, esl_lines, esl_calls>>
wsVars == <<ws_records, ws_out, ws_calls>>
moreVars == <<tiVars, escVars, eslVars, wsVars>>
vars == <<bmsVars, cslVars, nsVars, texVars, driverVars, moreVars>>

-----------------------------------------------------------------------------
(* Bounds of the model *)

\* longest verse (in lines) handed to build_macro_segments
MaxLines == 7
\* longest arbitrary line handed to clean_shloka_line
MaxLineLen == 5
\* longest arbitrary string handed to normalise_slug
MaxSlugLen == 5

-----------------------------------------------------------------------------
(* Characters *)

LowerSeq == <<"a","b","c","d","e","f","g","h","i","j","k","l","m",
              "n","o","p","q","r","s","t","u","v","w","x","y","z">>
UpperSeq == <<"A","B","C","D","E","F","G","H","I","J","K","L","M",
              "N","O","P","Q","R","S","T","U","V","W","X","Y","Z">>
DigitSeq == <<"0","1","2","3","4","5","6","7","8","9">>

Range(s) == { s[i] : i \in DOMAIN s }

LowerChars == Range(LowerSeq)
UpperChars == Range(UpperSeq)
DigitChars == Range(DigitSeq)

\* U+0964 and U+0965, the single and double verse-end marks
DANDA  == "DANDA"
DDANDA == "DDANDA"
\* [०-९], the Devanagari digits
DevDigitChars == {"DEV0","DEV1","DEV2","DEV3","DEV4","DEV5","DEV6","DEV7","DEV8","DEV9"}
\* U+2013
ENDASH == "ENDASH"
\* what \s and str.strip() treat as white space
SpaceChars == {" ", "\t", "\n"}

\* str.lower() of one character
LowerChar(c) ==
    IF c \in UpperChars
    THEN LowerSeq[CHOOSE i \in DOMAIN UpperSeq : UpperSeq[i] = c]
    ELSE c

\* str.lower()
Lower(s) == [i \in DOMAIN s |-> LowerChar(s[i])]

\* str.strip(chars): drop leading and trailing characters of `chars`
RECURSIVE LStrip(_, _)
LStrip(s, chars) ==
    IF s # <<>> /\ Head(s) \in chars THEN LStrip(Tail(s), chars) ELSE s

RECURSIVE RStrip(_, _)
RStrip(s, chars) ==
    IF s # <<>> /\ s[Len(s)] \in chars
    THEN RStrip(SubSeq(s, 1, Len(s) - 1), chars)
    ELSE s

Strip(s, chars) == RStrip(LStrip(s, chars), chars)

\* all sequences over `alphabet` of length 0..n
SeqsUpTo(alphabet, n) == UNION { [1..k -> alphabet] : k \in 0..n }

\* how many characters of s are in `chars`
Count(s, chars) == Cardinality({ i \in DOMAIN s : s[i] \in chars })

-----------------------------------------------------------------------------
(* normalise_slug, scripts/generate_tex.py:146-151 *)

\* re.sub(r"([a-z0-9])([A-Z])", r"\1-\2", value): scan left to right,
\* non-overlapping matches
RECURSIVE camel_split(_)
camel_split(value) ==
    IF Len(value) < 2 THEN value
    ELSE IF value[1] \in (LowerChars \cup DigitChars) /\ value[2] \in UpperChars
         THEN <<value[1], "-", value[2]>> \o camel_split(Tail(Tail(value)))
         ELSE <<value[1]>> \o camel_split(Tail(value))

AlnumChars == DigitChars \cup LowerChars \cup UpperChars

\* re.sub(r"[^0-9a-zA-Z]+", "-", s): every maximal run of other characters
\* becomes one hyphen
RECURSIVE sub_non_alnum(_)
sub_non_alnum(s) ==
    IF s = <<>> THEN <<>>
    ELSE IF Head(s) \in AlnumChars
         THEN <<Head(s)>> \o sub_non_alnum(Tail(s))
         ELSE <<"-">> \o sub_non_alnum(LStrip(s, {c \in Range(s) : c \notin AlnumChars}))

\* a bug a maintainer could make: the closing strip("-") is dropped
normalise_slug_no_strip(value) == Lower(sub_non_alnum(camel_split(value)))

normalise_slug(value) ==
    LET cleaned == Strip(sub_non_alnum(camel_split(value)), {"-"})
    IN  Lower(cleaned)

-----------------------------------------------------------------------------
(* clean_shloka_line, src/generate_tex.py:36-45 *)

\* the quantifier {1,2} of RE_TRAILING_NUM: how many times the group
\* (?:[-ENDASH]digits) may repeat after the first digit group
TrailingNumRepsOnlyOne == {1}

TrailingNumReps == 1..2

SepChars == {"-", ENDASH}

\* RE_TRAILING_NUM matched from position i of s, in the given phase of the
\* pattern  DDANDA \s* D+ (?:[-ENDASH]D+){1,2} \s* DDANDA \s* $ ,
\* g = number of (?:...) repetitions completed so far
RECURSIVE TrailingNumFrom(_, _, _, _)
TrailingNumFrom(s, i, phase, g) ==
    LET has == i <= Len(s)
        c   == s[i]
    IN  CASE phase = "open" ->
               has /\ c = DDANDA /\ TrailingNumFrom(s, i + 1, "ws1", 0)
          [] phase = "ws1" ->
               has /\ \/ c \in SpaceChars /\ TrailingNumFrom(s, i + 1, "ws1", 0)
                      \/ c \in DevDigitChars /\ TrailingNumFrom(s, i + 1, "digits", 0)
          [] phase = "digits" ->
               \/ has /\ c \in DevDigitChars /\ TrailingNumFrom(s, i + 1, "digits", g)
               \/ has /\ c \in SepChars
                      /\ \E r \in TrailingNumReps : g + 1 <= r
                      /\ i + 1 <= Len(s) /\ s[i + 1] \in DevDigitChars
                      /\ TrailingNumFrom(s, i + 2, "digits", g + 1)
               \/ g \in TrailingNumReps /\ TrailingNumFrom(s, i, "ws2", g)
          [] phase = "ws2" ->
               has /\ \/ c \in SpaceChars /\ TrailingNumFrom(s, i + 1, "ws2", g)
                      \/ c = DDANDA /\ TrailingNumFrom(s, i + 1, "ws3", g)
          [] phase = "ws3" ->
               \/ ~has
               \/ has /\ c \in SpaceChars /\ TrailingNumFrom(s, i + 1, "ws3", g)

\* RE_TRAILING_NUM.sub("", line): the leftmost match is removed; it reaches
\* the end of the line, so there is no second match
RE_TRAILING_NUM_sub(line) ==
    LET starts == { p \in 1..Len(line) : TrailingNumFrom(line, p, "open", 0) }
    IN  IF starts = {} THEN line
        ELSE SubSeq(line, 1, (CHOOSE p \in starts : \A q \in starts : p <= q) - 1)

\* RE_DANDAS.sub("", line)
RE_DANDAS_sub(line) == SelectSeq(line, LAMBDA c : c \notin {DANDA, DDANDA})

\* a bug a maintainer could make: the final .strip() is dropped
clean_shloka_line_no_strip(line) == RE_DANDAS_sub(RE_TRAILING_NUM_sub(line))

clean_shloka_line(line) ==
    Strip(RE_DANDAS_sub(RE_TRAILING_NUM_sub(line)), SpaceChars)

-----------------------------------------------------------------------------
(* Numbers and text *)

DevDigitSeq == <<"DEV0","DEV1","DEV2","DEV3","DEV4","DEV5","DEV6","DEV7","DEV8","DEV9">>

\* what \d matches and int() accepts: ASCII and Devanagari digits
AnyDigitChars == DigitChars \cup DevDigitChars

DigitValue(c) ==
    IF c \in DigitChars
    THEN (CHOOSE i \in DOMAIN DigitSeq : DigitSeq[i] = c) - 1
    ELSE (CHOOSE i \in DOMAIN DevDigitSeq : DevDigitSeq[i] = c) - 1

\* int(digits) for a non-empty run of digits
RECURSIVE ParseDigits(_)
ParseDigits(s) ==
    IF s = <<>> THEN 0
    ELSE 10 * ParseDigits(SubSeq(s, 1, Len(s) - 1)) + DigitValue(s[Len(s)])

\* str(n) for n >= 0
RECURSIVE NatDigits(_)
NatDigits(n) ==
    IF n < 10 THEN <<DigitSeq[n + 1]>>
    ELSE NatDigits(n \div 10) \o <<DigitSeq[(n % 10) + 1]>>

\* str(n)
IntStr(n) == IF n >= 0 THEN NatDigits(n) ELSE <<"-">> \o NatDigits(0 - n)

RECURSIVE ZeroPad(_, _)
ZeroPad(s, width) == IF Len(s) >= width THEN s ELSE ZeroPad(<<"0">> \o s, width)

\* f"{n:03d}": zero padding to width 3, the sign counted in the width
Fmt03d(n) ==
    IF n >= 0 THEN ZeroPad(NatDigits(n), 3)
    ELSE <<"-">> \o ZeroPad(NatDigits(0 - n), 2)

\* Optional[...]
None == [some |-> FALSE, v |-> 0]
Some(x) == [some |-> TRUE, v |-> x]

RECURSIVE FirstSome(_)
FirstSome(opts) ==
    IF opts = <<>> THEN None
    ELSE IF Head(opts).some THEN Head(opts) ELSE FirstSome(Tail(opts))

\* the concatenation of a sequence of sequences (halving keeps it shallow)
RECURSIVE ConcatAll(_)
ConcatAll(ss) ==
    IF ss = <<>> THEN <<>>
    ELSE IF Len(ss) = 1 THEN ss[1]
    ELSE LET half == Len(ss) \div 2
         IN  ConcatAll(SubSeq(ss, 1, half)) \o ConcatAll(SubSeq(ss, half + 1, Len(ss)))

\* "sep".join(parts)
Join(sep, parts) ==
    ConcatAll([i \in DOMAIN parts |-> IF i = 1 THEN parts[1] ELSE sep \o parts[i]])

\* str.split(sep) for a one-character separator
Split(s, sep) ==
    LET cuts == SelectSeq([i \in 1..Len(s) |-> i], LAMBDA i : s[i] = sep)
        n    == Len(cuts)
    IN  [k \in 1..(n + 1) |->
            SubSeq(s, IF k = 1 THEN 1 ELSE cuts[k - 1] + 1,
                      IF k = n + 1 THEN Len(s) ELSE cuts[k] - 1)]

\* str.splitlines(): like split on the line break, without a last empty piece
splitlines(s) ==
    LET parts == Split(s, "\n") IN
    IF parts[Len(parts)] = <<>> THEN SubSeq(parts, 1, Len(parts) - 1) ELSE parts

EndsWith(s, t) == Len(t) <= Len(s) /\ SubSeq(s, Len(s) - Len(t) + 1, Len(s)) = t

-----------------------------------------------------------------------------
(* JSON values as json.loads returns them *)

JStr(s)      == [t |-> "str",   v |-> s]
JInt(n)      == [t |-> "int",   v |-> n]
\* a float: its whole part, and whether it is integral (x.0) or not (x.5)
JFloat(n, i) == [t |-> "float", v |-> <<n, i>>]
JBool(b)     == [t |-> "bool",  v |-> b]
JNull        == [t |-> "null",  v |-> 0]
JList(items) == [t |-> "list",  v |-> items]
\* a dict: its (key, value) pairs in insertion order, keys distinct
JMap(pairs)  == [t |-> "map",   v |-> pairs]

\* `key in mapping`
HasKey(m, key) == \E i \in DOMAIN m.v : m.v[i][1] = key
\* mapping[key]
GetKey(m, key) == m.v[CHOOSE i \in DOMAIN m.v : m.v[i][1] = key][2]

\* {str(key).lower(): key for key in node.keys()}.get(candidate): the last
\* key whose lower-case form is the candidate, as an index into the pairs
\* (0 when there is none)
LowerKeyIndex(m, candidate) ==
    LET hits == { i \in DOMAIN m.v : Lower(m.v[i][1]) = candidate } IN
    IF hits = {} THEN 0 ELSE CHOOSE i \in hits : \A k \in hits : k <= i

\* repr of a str: quoted, with the line break, tab, backslash and (where
\* needed) the quote escaped; other characters are taken as printable
StrRepr(s) ==
    LET quote == IF "'" \in Range(s) /\ "\"" \notin Range(s) THEN "\"" ELSE "'"
        Esc(c) == CASE c = "\n" -> <<"\\", "n">>
                    [] c = "\t" -> <<"\\", "t">>
                    [] c = "\\" -> <<"\\", "\\">>
                    [] c = quote /\ quote = "'" -> <<"\\", "'">>
                    [] OTHER -> <<c>>
    IN  <<quote>> \o ConcatAll([i \in DOMAIN s |-> Esc(s[i])]) \o <<quote>>

\* str(value) and repr(value)
RECURSIVE PyRepr(_)
PyStr(value) == IF value.t = "str" THEN value.v ELSE PyRepr(value)
PyRepr(value) ==
    CASE value.t = "str"   -> StrRepr(value.v)
      [] value.t = "int"   -> IntStr(value.v)
      [] value.t = "float" -> IntStr(value.v[1]) \o (IF value.v[2] THEN <<".","0">> ELSE <<".","5">>)
      [] value.t = "bool"  -> IF value.v THEN <<"T","r","u","e">> ELSE <<"F","a","l","s","e">>
      [] value.t = "null"  -> <<"N","o","n","e">>
      [] value.t = "list"  ->
            <<"[">> \o Join(<<","," ">>, [i \in DOMAIN value.v |-> PyRepr(value.v[i])]) \o <<"]">>
      [] value.t = "map"   ->
            <<"{">> \o Join(<<","," ">>, [i \in DOMAIN value.v |->
                     StrRepr(value.v[i][1]) \o <<":"," ">> \o PyRepr(value.v[i][2])])
                \o <<"}">>

-----------------------------------------------------------------------------
(* Record Extractor, scripts/generate_tex.py:203-314 *)

CANDIDATE_TEXT_KEYS ==
    << <<"t","e","x","t">>, <<"l","i","n","e","s">>, <<"t","e","x","t","_","l","i","n","e","s">>, <<"s","h","l","o","k","a">>, <<"s","l","o","k","a">>, <<"c","o","n","t","e","n","t">>, <<"v","a","l","u","e","s">> >>

CANDIDATE_NUMBER_KEYS ==
    << <<"n","u","m","b","e","r">>, <<"s","h","l","o","k","a","_","n","u","m","b","e","r">>, <<"s","h","l","o","k","a","_","n","o">>, <<"s","l","o","k","a","_","n","u","m","b","e","r">>, <<"s","l","o","k","a","_","n","o">>,
       <<"v","e","r","s","e","_","n","u","m","b","e","r">>, <<"v","e","r","s","e">>, <<"i","d">>, <<"i","d","e","n","t","i","f","i","e","r">>, <<"i","n","d","e","x">> >>

\* re.findall(r"\d+", value)[-1] when there is a match
LastDigitRun(s) ==
    LET cut  == RStrip(s, Range(s) \ AnyDigitChars)
        rest == RStrip(cut, AnyDigitChars)
    IN  SubSeq(cut, Len(rest) + 1, Len(cut))

coerce_int(value) ==
    CASE value.t = "bool"  -> None
      [] value.t = "int"   -> Some(value.v)
      [] value.t = "float" -> IF value.v[2] THEN Some(value.v[1]) ELSE None
      [] value.t = "str"   ->
            IF LastDigitRun(value.v) # <<>>
            THEN Some(ParseDigits(LastDigitRun(value.v))) ELSE None
      [] OTHER -> None

RECURSIVE extract_shloka_number(_)
extract_shloka_number(shloka) ==
    IF shloka.t # "map" THEN None
    ELSE
      LET direct == FirstSome([c \in DOMAIN CANDIDATE_NUMBER_KEYS |->
                       LET k == LowerKeyIndex(shloka, CANDIDATE_NUMBER_KEYS[c])
                       IN  IF k = 0 THEN None ELSE coerce_int(shloka.v[k][2])])
      IN  IF direct.some THEN direct
          ELSE FirstSome([i \in DOMAIN shloka.v |->
                   IF shloka.v[i][2].t = "map"
                   THEN extract_shloka_number(shloka.v[i][2]) ELSE None])

\* [line.strip() for line in value.splitlines() if line.strip()]
StrLines(s) ==
    SelectSeq([i \in DOMAIN splitlines(s) |-> Strip(splitlines(s)[i], SpaceChars)],
              LAMBDA l : l # <<>>)

\* [str(item).strip() for item in value if str(item).strip()]
ListLines(items) ==
    SelectSeq([i \in DOMAIN items |-> Strip(PyStr(items[i]), SpaceChars)],
              LAMBDA l : l # <<>>)

\* lines 272-281: the value the mapping supplies, if any
shloka_text_value(shloka) ==
    LET cands == { c \in DOMAIN CANDIDATE_TEXT_KEYS : HasKey(shloka, CANDIDATE_TEXT_KEYS[c]) }
        falls == { i \in DOMAIN shloka.v :
                     /\ EndsWith(Lower(shloka.v[i][1]), <<"_","s","a","n","s","k","r","i","t">>)
                     /\ shloka.v[i][2].t \in {"str", "list"} }
    IN  IF cands # {}
        THEN Some(GetKey(shloka,
                 CANDIDATE_TEXT_KEYS[CHOOSE c \in cands : \A d \in cands : c <= d]))
        ELSE IF falls # {}
        THEN Some(shloka.v[CHOOSE i \in falls : \A k \in falls : i <= k][2])
        ELSE None

extract_shloka_lines(shloka) ==
    CASE shloka.t = "str" -> StrLines(shloka.v)
      [] shloka.t = "map" ->
            LET value == shloka_text_value(shloka) IN
            IF ~value.some THEN <<>>
            ELSE IF value.v.t = "str" THEN StrLines(value.v.v)
            ELSE IF value.v.t = "list" THEN ListLines(value.v.v)
            ELSE <<>>
      [] shloka.t = "list" -> ListLines(shloka.v)
      [] OTHER -> <<>>

\* ShlokaEntry(lines, number)
extract_shloka_entry(shloka) ==
    [lines |-> extract_shloka_lines(shloka), number |-> extract_shloka_number(shloka)]

WRAPPER_KEYS == << <<"s","h","l","o","k","a","s">>, <<"s","l","o","k","a","s">>, <<"v","e","r","s","e","s">>, <<"d","a","t","a">>, <<"i","t","e","m","s">>, <<"c","o","n","t","e","n","t">> >>

find_shlokas(data) ==
    CASE data.t = "list" -> [i \in DOMAIN data.v |-> extract_shloka_entry(data.v[i])]
      [] data.t = "map" ->
            LET hits == { k \in DOMAIN WRAPPER_KEYS :
                            /\ HasKey(data, WRAPPER_KEYS[k])
                            /\ GetKey(data, WRAPPER_KEYS[k]).t = "list" }
            IN  IF hits # {}
                THEN LET items == GetKey(data,
                             WRAPPER_KEYS[CHOOSE k \in hits : \A d \in hits : k <= d]).v
                     IN  [i \in DOMAIN items |-> extract_shloka_entry(items[i])]
                ELSE LET vals == SelectSeq([i \in DOMAIN data.v |-> data.v[i][2]],
                                     LAMBDA x : x.t \in {"list", "map", "str"})
                     IN  [i \in DOMAIN vals |-> extract_shloka_entry(vals[i])]
      [] OTHER -> <<>>

-----------------------------------------------------------------------------
(* TitleIndex, scripts/generate_tex.py:41-143 *)

EmptyTitleIndex == [by_slug |-> <<>>, by_numbers |-> <<>>]

\* dict.setdefault(key, value)
setdefault(d, key, value) == IF key \in DOMAIN d THEN d ELSE d @@ (key :> value)

\* int(text.strip()): an optional sign, then digits that single underscores
\* may separate
IntOfText(text) ==
    LET s    == Strip(text, SpaceChars)
        body == IF s # <<>> /\ s[1] \in {"+", "-"} THEN Tail(s) ELSE s
        ok   == /\ body # <<>>
                /\ \A i \in DOMAIN body : body[i] \in AnyDigitChars \cup {"_"}
                /\ body[1] # "_" /\ body[Len(body)] # "_"
                /\ \A i \in 1..(Len(body) - 1) : ~(body[i] = "_" /\ body[i + 1] = "_")
        n    == ParseDigits(SelectSeq(body, LAMBDA c : c # "_"))
    IN  IF ~ok THEN None
        ELSE IF s[1] = "-" THEN Some(0 - n) ELSE Some(n)

KANDA_KEYS ==
    << <<"k","a","n","d","a","_","n","u","m","b","e","r">>, <<"k","a","n","d","a">>, <<"b","o","o","k","_","n","u","m","b","e","r">>, <<"b","o","o","k">>, <<"k","a","n","d","a","_","n","o">>, <<"k","a","n","d","a","i","d">> >>
SARGA_KEYS ==
    << <<"s","a","r","g","a","_","n","u","m","b","e","r">>, <<"s","a","r","g","a">>, <<"c","h","a","p","t","e","r","_","n","u","m","b","e","r">>, <<"c","h","a","p","t","e","r">>, <<"a","d","h","y","a","y","a">>, <<"c","h","a","p","t","e","r","i","d">> >>
SLUG_KEYS  == << <<"s","l","u","g">>, <<"c","h","a","p","t","e","r","_","s","l","u","g">>, <<"s","a","r","g","a","_","s","l","u","g">>, <<"i","d">>, <<"i","d","e","n","t","i","f","i","e","r">> >>
TITLE_KEYS == << <<"t","i","t","l","e">>, <<"c","h","a","p","t","e","r","_","t","i","t","l","e">>, <<"n","a","m","e">>, <<"h","e","a","d","i","n","g">> >>

\* _extract_int(keys) on a mapping node
scan_extract_int(node, keys) ==
    FirstSome([c \in DOMAIN keys |->
        LET k == LowerKeyIndex(node, keys[c])
        IN  IF k = 0 THEN None ELSE IntOfText(PyStr(node.v[k][2]))])

\* the first candidate key holding a string that is not blank, as an index
\* into the node's pairs (0 when there is none)
scan_first_text(node, keys) ==
    LET hits == { c \in DOMAIN keys :
                    LET k == LowerKeyIndex(node, keys[c])
                    IN  /\ k # 0
                        /\ node.v[k][2].t = "str"
                        /\ Strip(node.v[k][2].v, SpaceChars) # <<>> }
    IN  IF hits = {} THEN 0
        ELSE LowerKeyIndex(node, keys[CHOOSE c \in hits : \A d \in hits : c <= d])

\* a bug a maintainer could make: a later title replaces the first one
register_overwrite(d, key, value) == [k \in DOMAIN d \cup {key} |-> IF k = key THEN value ELSE d[k]]

\* lines 129-133: how a title enters a lookup table
register(d, key, value) == setdefault(d, key, value)

\* a bug a maintainer could make: the inherited book number is dropped
resolved_kanda_own_only(own_kanda, inherited_kanda) == own_kanda

\* lines 95-96: the node's own book number, else the inherited one
resolved_kanda(own_kanda, inherited_kanda) ==
    IF own_kanda.some THEN own_kanda ELSE inherited_kanda

\* TitleIndex._scan; the index is threaded through the traversal
RECURSIVE scan(_, _, _)
RECURSIVE scan_all(_, _, _)
scan_all(index, nodes, inherited_kanda) ==
    IF nodes = <<>> THEN index
    ELSE scan_all(scan(index, Head(nodes), inherited_kanda), Tail(nodes), inherited_kanda)

scan(index, node, inherited_kanda) ==
    CASE node.t = "list" -> scan_all(index, node.v, inherited_kanda)
      [] node.t = "map" ->
            LET own_kanda    == scan_extract_int(node, KANDA_KEYS)
                kanda_number == resolved_kanda(own_kanda, inherited_kanda)
                sarga_number == scan_extract_int(node, SARGA_KEYS)
                slug_at      == scan_first_text(node, SLUG_KEYS)
                slug_value   == IF slug_at = 0 THEN <<>>
                                ELSE normalise_slug(node.v[slug_at][2].v)
                title_at     == scan_first_text(node, TITLE_KEYS)
                title_value  == IF title_at = 0 THEN <<>>
                                ELSE Strip(node.v[title_at][2].v, SpaceChars)
                with_slug    ==
                    IF title_value # <<>> /\ slug_value # <<>>
                    THEN [index EXCEPT !.by_slug = register(@, slug_value, title_value)]
                    ELSE index
                with_numbers ==
                    IF title_value # <<>> /\ kanda_number.some /\ sarga_number.some
                    THEN [with_slug EXCEPT !.by_numbers =
                             register(@, <<kanda_number.v, sarga_number.v>>, title_value)]
                    ELSE with_slug
                children == SelectSeq([i \in DOMAIN node.v |-> node.v[i][2]],
                                      LAMBDA x : x.t \in {"list", "map"})
            IN  scan_all(with_numbers, children, kanda_number)
      [] OTHER -> index

\* TitleIndex.get
TitleIndex_get(index, slug, kanda_number, sarga_number) ==
    LET slug_key == normalise_slug(slug) IN
    IF slug_key \in DOMAIN index.by_slug THEN Some(index.by_slug[slug_key])
    ELSE IF <<kanda_number, sarga_number>> \in DOMAIN index.by_numbers
    THEN Some(index.by_numbers[<<kanda_number, sarga_number>>])
    ELSE None

-----------------------------------------------------------------------------
(* Paths, scripts/generate_tex.py:154-193 *)

UpperChar(c) ==
    IF c \in LowerChars
    THEN UpperSeq[CHOOSE i \in DOMAIN LowerSeq : LowerSeq[i] = c]
    ELSE c

\* re.match(r"^(\d+)[-_](.+)$", parent_name): the groups, when it matches
kanda_match(parent_name) ==
    LET rest   == LStrip(parent_name, AnyDigitChars)
        digits == SubSeq(parent_name, 1, Len(parent_name) - Len(rest))
    IN  IF digits # <<>> /\ Len(rest) >= 2 /\ rest[1] \in {"-", "_"}
           /\ \A i \in DOMAIN rest : rest[i] # "\n"
        THEN Some(<<digits, Tail(rest)>>)
        ELSE None

\* extract_kanda_metadata: (kanda_number, kanda_slug, output_dir_name), or
\* None where the source raises SystemExit
extract_kanda_metadata(path) ==
    LET match == kanda_match(path.parent) IN
    IF ~match.some THEN None
    ELSE LET kanda_number == ParseDigits(match.v[1])
             kanda_slug   == normalise_slug(match.v[2])
             parts        == SelectSeq(Split(match.v[2], "-"), LAMBDA p : p # <<>>)
             pretty       == [i \in DOMAIN parts |->
                                 <<UpperChar(parts[i][1])>> \o Tail(parts[i])]
         IN  Some(<<kanda_number, kanda_slug,
                    IntStr(kanda_number) \o <<"-">> \o Join(<<>>, pretty)>>)

\* extract_sarga_number: re.search(r"(\d+)(?=\.[^./]+$)", path.name), or None
\* where the source raises SystemExit
extract_sarga_number(path) ==
    LET name == path.name
        dots == { i \in DOMAIN name : name[i] = "." }
        dot  == CHOOSE i \in dots : \A k \in dots : k <= i
        stem == SubSeq(name, 1, dot - 1)
        rest == RStrip(stem, AnyDigitChars)
    IN  IF dots = {} THEN None
        ELSE IF dot = Len(name) \/ Len(rest) = Len(stem) THEN None
        ELSE Some(ParseDigits(SubSeq(stem, Len(rest) + 1, Len(stem))))

\* Path ordering as sorted() sees it: by parts, each compared as text
CharRank == <<"\t","\n"," ","%","&","'","+","-",".","/","0","1","2","3","4","5","6","7","8","9",":","A","B","C","D","E","F","G","H","I","J","K","L","M","N","O","P","Q","R","S","T","U","V","W","X","Y","Z","[","\\","]","^","_","a","b","c","d","e","f","g","h","i","j","k","l","m","n","o","p","q","r","s","t","u","v","w","x","y","z","{","}","~">>
Rank(c) == IF c \in Range(CharRank)
           THEN CHOOSE i \in DOMAIN CharRank : CharRank[i] = c
           ELSE Len(CharRank) + 1

RECURSIVE TextLess(_, _)
TextLess(a, b) ==
    IF b = <<>> THEN FALSE
    ELSE IF a = <<>> THEN TRUE
    ELSE IF Rank(a[1]) # Rank(b[1]) THEN Rank(a[1]) < Rank(b[1])
    ELSE TextLess(Tail(a), Tail(b))

PathLess(p, q) ==
    \/ TextLess(p.parent, q.parent)
    \/ p.parent = q.parent /\ TextLess(p.name, q.name)

\* sorted(paths)
RECURSIVE SortedPaths(_)
SortedPaths(paths) ==
    IF paths = {} THEN <<>>
    ELSE LET first == CHOOSE p \in paths : \A q \in paths \ {p} : PathLess(p, q)
         IN  <<first>> \o SortedPaths(paths \ {first})

DEFAULT_MAP_FILE_NAME == <<"r","a","m","a","y","a","n","a","_","m","a","p",".","j","s","o","n">>

\* iter_data_files: the *.json files below data_dir, sorted, the map file's
\* name left out; nothing when the directory is missing
iter_data_files(exists, paths) ==
    IF ~exists THEN <<>>
    ELSE SelectSeq(SortedPaths({ p \in paths : EndsWith(p.name, <<".","j","s","o","n">>) }),
                   LAMBDA p : p.name # DEFAULT_MAP_FILE_NAME)

-----------------------------------------------------------------------------
(* build_macro_segments, scripts/generate_tex.py:340-384 *)

MACRO_BY_LINE_COUNT ==
    (1 :> "onelineshloka") @@ (2 :> "twolineshloka") @@ (3 :> "threelineshloka")

Min(a, b) == IF a <= b THEN a ELSE b

\* a bug a maintainer could make: long verses are cut three lines at a time
segment_size_greedy3(remaining) ==
    IF remaining \in DOMAIN MACRO_BY_LINE_COUNT THEN remaining
    ELSE IF remaining > 3 THEN 3
    ELSE remaining

\* lines 363-369: the size chosen for the next segment
segment_size(remaining) ==
    IF remaining \in DOMAIN MACRO_BY_LINE_COUNT THEN remaining
    ELSE IF remaining > 3 THEN 2
    ELSE remaining

\* the while loop of build_macro_segments; index is 0-based as in the source
RECURSIVE bms_loop(_, _, _)
bms_loop(lines, index, segments) ==
    LET total     == Len(lines)
        remaining == total - index
        size0     == segment_size(remaining)
        known     == size0 \in DOMAIN MACRO_BY_LINE_COUNT
        macro_name == IF known THEN MACRO_BY_LINE_COUNT[size0] ELSE "twolineshloka"
        size      == IF known THEN size0
                     ELSE IF Min(2, remaining) # 0 THEN Min(2, remaining) ELSE 1
        segment_lines == [offset \in 1..size |-> lines[index + offset]]
    IN  IF ~(index < total) THEN segments
        ELSE bms_loop(lines, index + size, Append(segments, <<macro_name, segment_lines>>))

build_macro_segments(lines) ==
    IF lines = <<>> THEN <<>> ELSE bms_loop(lines, 0, <<>>)

-----------------------------------------------------------------------------
(* Document Assembler, scripts/generate_tex.py:317-444 *)

TEX_SPECIAL_CHARS ==
    ("&" :> <<"\\","&">>) @@ ("%" :> <<"\\","%">>) @@ ("$" :> <<"\\","$">>) @@ ("#" :> <<"\\","#">>) @@
    ("_" :> <<"\\","_">>) @@ ("{" :> <<"\\","{">>) @@ ("}" :> <<"\\","}">>) @@
    ("~" :> <<"\\","t","e","x","t","a","s","c","i","i","t","i","l","d","e","{","}">>) @@ ("^" :> <<"\\","t","e","x","t","a","s","c","i","i","c","i","r","c","u","m","{","}">>)

tex_escape(value) ==
    ConcatAll([i \in DOMAIN value |->
        IF value[i] \in DOMAIN TEX_SPECIAL_CHARS
        THEN TEX_SPECIAL_CHARS[value[i]] ELSE <<value[i]>>])

\* the text a macro name stands for
MacroText(macro_name) ==
    CASE macro_name = "onelineshloka"   -> <<"o","n","e","l","i","n","e","s","h","l","o","k","a">>
      [] macro_name = "twolineshloka"   -> <<"t","w","o","l","i","n","e","s","h","l","o","k","a">>
      [] macro_name = "threelineshloka" -> <<"t","h","r","e","e","l","i","n","e","s","h","l","o","k","a">>

\* lines 390-392: the suffix of line idx (1-based) among count lines
comment_suffix(comment, idx, count) ==
    IF comment.some /\ comment.v # <<>> /\ idx = count
    THEN <<" ","%">> \o comment.v ELSE <<>>

\* the list `body` of format_shloka_macro
macro_body(macro_name, lines, comment) ==
    << <<"\\">> \o MacroText(macro_name) >> \o
    [idx \in DOMAIN lines |->
        <<"{">> \o tex_escape(lines[idx]) \o <<"}">> \o comment_suffix(comment, idx, Len(lines))]

format_shloka_macro(macro_name, lines, comment) ==
    Join(<<"\n">>, macro_body(macro_name, lines, comment))

\* a bug a maintainer could make: every segment of a verse gets the comment
segment_comment_every(identifier, segment_index, count) == Some(identifier)

\* line 440: the comment handed to segment segment_index (1-based) of count
segment_comment(identifier, segment_index, count) ==
    IF segment_index = count THEN Some(identifier) ELSE None

\* lines 422-423
shloka_identifier(entry, entry_index, kanda_number, sarga_number) ==
    LET shloka_number == IF entry.number.some THEN entry.number.v ELSE entry_index
    IN  IntStr(kanda_number) \o <<"-">> \o Fmt03d(sarga_number) \o <<"-">> \o Fmt03d(shloka_number)

\* lines 418-442: what one entry appends to the list `lines`
entry_lines(entry, entry_index, kanda_number, sarga_number) ==
    LET identifier == shloka_identifier(entry, entry_index, kanda_number, sarga_number)
        segments   == build_macro_segments(entry.lines)
    IN  IF entry.lines = <<>> \/ segments = <<>> THEN <<>>
        ELSE ConcatAll([segment_index \in DOMAIN segments |->
                << format_shloka_macro(segments[segment_index][1],
                                       segments[segment_index][2],
                                       segment_comment(identifier, segment_index,
                                                       Len(segments))),
                   <<>> >>])

DataDirText == <<".",".","/","s","r","c","/","d","a","t","a">>

\* source_path.as_posix()
as_posix(path) == DataDirText \o <<"/">> \o path.parent \o <<"/">> \o path.name

\* datetime.utcnow().isoformat() of the clock reading `now`
isoformat(now) == <<"T">> \o NatDigits(now)

\* lines 406-407
chapter_slug(kanda_slug, sarga_number) == kanda_slug \o <<"-","s","a","r","g","a","-">> \o Fmt03d(sarga_number)

\* lines 412-415: the title heading, or the placeholder comment
title_line(title, slug) ==
    IF title.some /\ title.v # <<>>
    THEN <<"\\","c","h","a","p","t","e","r","{">> \o tex_escape(title.v) \o <<"}">>
    ELSE <<"%"," ","T","i","t","l","e"," ","n","o","t"," ","a","v","a","i","l","a","b","l","e"," ","f","o","r"," ">> \o slug

generate_tex_content(source_path, shlokas, kanda_number, sarga_number, title_index, kanda_slug, now) ==
    LET slug  == chapter_slug(kanda_slug, sarga_number)
        title == TitleIndex_get(title_index, slug, kanda_number, sarga_number)
        head  == << <<"%"," ","A","u","t","o","-","g","e","n","e","r","a","t","e","d"," ","f","r","o","m"," ">> \o as_posix(source_path),
                    <<"%"," ","G","e","n","e","r","a","t","e","d"," ","o","n"," ">> \o isoformat(now) \o <<"Z">>,
                    title_line(title, slug),
                    <<>> >>
        body  == ConcatAll([entry_index \in DOMAIN shlokas |->
                     entry_lines(shlokas[entry_index], entry_index,
                                 kanda_number, sarga_number)])
    IN  RStrip(Join(<<"\n">>, head \o body), SpaceChars) \o <<"\n">>

-----------------------------------------------------------------------------
(* process_file, scripts/generate_tex.py:447-482 *)

\* a bug a maintainer could make: the overwrite flag is read the wrong way
skip_existing_inverted(exists, overwrite) == exists /\ overwrite

\* line 466
skip_existing(exists, overwrite) == exists /\ ~overwrite

\* a bug a maintainer could make: records without lines are not filtered out
keep_entries_all(shlokas) == shlokas

\* line 456
keep_entries(shlokas) == SelectSeq(shlokas, LAMBDA entry : entry.lines # <<>>)

\* What one call of process_file does, given the file's content, the output
\* files present, the title index, the overwrite flag and the clock:
\*   kind "exit"  - SystemExit is raised (JSON or naming convention)
\*   kind "none"  - no verse found, None returned
\*   kind "skip"  - the output exists and is left alone, its path returned
\*   kind "write" - the content is written to the path, its path returned
process_file(path, file, outputs, title_index, overwrite, now) ==
    LET shlokas == keep_entries(find_shlokas(file.data))
        kanda   == extract_kanda_metadata(path)
        sarga   == extract_sarga_number(path)
        output_path == << kanda.v[3],
                          kanda.v[2] \o <<"-","s","a","r","g","a","-">> \o Fmt03d(sarga.v) \o <<".","t","e","x">> >>
        content == generate_tex_content(path, shlokas, kanda.v[1], sarga.v,
                                        title_index, kanda.v[2], now)
        nothing == [kind |-> "exit", path |-> <<>>, content |-> <<>>]
    IN  IF ~file.parses THEN nothing
        ELSE IF shlokas = <<>> THEN [nothing EXCEPT !.kind = "none"]
        ELSE IF ~kanda.some THEN nothing
        ELSE IF ~sarga.some THEN nothing
        ELSE IF skip_existing(output_path \in DOMAIN outputs, overwrite)
        THEN [kind |-> "skip", path |-> output_path, content |-> <<>>]
        ELSE [kind |-> "write", path |-> output_path, content |-> content]

-----------------------------------------------------------------------------
(* write_sarga_tex, src/generate_tex.py:32-153 *)

\* the words नाम and सर्ग, the visarga and the dash of the heading
NAMA == "NAMA"
SARGA == "SARGA"
VISARGA == "VISARGA"
EMDASH == "EMDASH"

\* to_devanagari
to_devanagari(n) == [i \in DOMAIN NatDigits(n) |-> DevDigitSeq[DigitValue(NatDigits(n)[i]) + 1]]

\* determine_macro
determine_macro(n_lines) ==
    CASE n_lines = 1 -> <<"\\">> \o <<"o","n","e","l","i","n","e","s","h","l","o","k","a">>
      [] n_lines = 2 -> <<"\\">> \o <<"t","w","o","l","i","n","e","s","h","l","o","k","a">>
      [] n_lines = 3 -> <<"\\">> \o <<"t","h","r","e","e","l","i","n","e","s","h","l","o","k","a">>
      [] n_lines = 4 -> <<"\\">> \o <<"f","o","u","r","l","i","n","e","i","n","d","e","n","t","e","d","s","h","l","o","k","a">>
      [] OTHER       -> <<"\\">> \o <<"t","w","o","l","i","n","e","s","h","l","o","k","a">>

\* RE_ORD_FROM_PUSHP.search(t): नाम \s+ (.+?) \s* सर्ग ; a match is given by
\* where it starts, how much white space \s+ takes and how long the group is
OrdMatches(t) ==
    { m \in (1..Len(t)) \X (1..Len(t)) \X (1..Len(t)) :
        LET i == m[1]  w == m[2]  g == m[3]  e == m[1] + m[2] + m[3] IN
        /\ t[i] = NAMA
        /\ e < Len(t)
        /\ \A k \in (i + 1)..(i + w) : t[k] \in SpaceChars
        /\ \A k \in (i + w + 1)..e : t[k] # "\n"
        /\ \E q \in (e + 1)..Len(t) :
              /\ t[q] = SARGA
              /\ \A k \in (e + 1)..(q - 1) : t[k] \in SpaceChars }

\* extract_ordinal_from_pushpika
extract_ordinal_from_pushpika(pushpika_text) ==
    LET t0 == LStrip(pushpika_text, SpaceChars)
        t  == IF t0 # <<>> /\ t0[1] = DDANDA THEN LStrip(Tail(t0), SpaceChars) ELSE t0
        ms == OrdMatches(t)
        m  == CHOOSE a \in ms : \A b \in ms :
                 \/ a[1] < b[1]
                 \/ a[1] = b[1] /\ a[2] > b[2]
                 \/ a[1] = b[1] /\ a[2] = b[2] /\ a[3] <= b[3]
    IN  IF ms = {} THEN None
        ELSE Some(Strip(SubSeq(t, m[1] + m[2] + 1, m[1] + m[2] + m[3]), SpaceChars))

\* (rec.get("text") or "").strip()
record_text(rec) == Strip(rec.text, SpaceChars)

\* lines 102-105: the index of the last record without a number (0 if none)
last_unnumbered(records) ==
    LET unn == { i \in DOMAIN records : ~records[i].shloka_num.some }
    IN  IF unn = {} THEN 0 ELSE CHOOSE i \in unn : \A k \in unn : k <= i

\* lines 107-120: the heading line
sect_line(sarga_num, title_dev, records) ==
    LET idx  == last_unnumbered(records)
        text == IF idx = 0 THEN <<>> ELSE record_text(records[idx])
        ord  == IF text = <<>> THEN None ELSE extract_ordinal_from_pushpika(text)
        word == IF ord.some /\ ord.v # <<>> THEN ord.v ELSE to_devanagari(sarga_num)
    IN  <<"\\">> \o <<"s","e","c","t","{">> \o word \o <<" ", SARGA, VISARGA, " ", EMDASH, " ">>
          \o title_dev \o <<"}">>

\* lines 137-138: the cleaned lines of a numbered record that are not empty
clean_lines(text) ==
    SelectSeq([k \in DOMAIN Split(text, "\n") |-> clean_shloka_line(Split(text, "\n")[k])],
              LAMBDA l : l # <<>>)

\* lines 126-145: what one record adds to out_lines
record_out_lines(kanda_num, sarga_num, records, i) ==
    LET text == record_text(records[i])
        shno == records[i].shloka_num
        cls  == clean_lines(text)
    IN  IF ~shno.some
        THEN IF i = last_unnumbered(records) /\ text # <<>>
             THEN << <<"\n">> \o (IF text[1] = DDANDA THEN text ELSE <<DDANDA>> \o text)
                       \o <<"\n">> >>
             ELSE <<>>
        ELSE IF cls = <<>> THEN <<>>
        ELSE <<determine_macro(Len(cls))>> \o
             [k \in DOMAIN cls |->
                 <<"{">> \o cls[k] \o <<"}">> \o
                 (IF k = Len(cls)
                  THEN <<" ","%">> \o IntStr(kanda_num) \o <<"-">> \o IntStr(sarga_num) \o <<"-">>
                         \o IntStr(shno.v) \o <<"\n">>
                  ELSE <<>>)]

\* write_sarga_tex: the text written to the chapter's file
write_sarga_tex(kanda_num, sarga_num, title_dev, records) ==
    Join(<<"\n">>,
         << sect_line(sarga_num, title_dev, records) \o <<"\n">> >> \o
         ConcatAll([i \in DOMAIN records |->
                       record_out_lines(kanda_num, sarga_num, records, i)]))

-----------------------------------------------------------------------------
(* Inputs of the pure-function specifications *)

\* verse lines as the segmenter sees them (already extracted text)
LineSamples == { <<"r","a">>, <<"m","a">> }

\* characters of the lines handed to clean_shloka_line
CleanAlphabet == { DDANDA, DANDA, "DEV1", "-", " ", "a" }

\* most digit groups in a generated verse locator
MaxGroups == 4

DigitGroupSamples == { <<"DEV1">>, <<"DEV1","DEV2">> }
PadSamples == { <<>>, <<" ">> }
PrefixSamples == { <<>>, <<"a">>, <<"DEV3">>, <<"a"," ">>, <<"a",DANDA>> }

\* digit groups joined by hyphens or en dashes, n groups
RECURSIVE JoinedGroups(_)
JoinedGroups(n) ==
    IF n = 1 THEN DigitGroupSamples
    ELSE { g \o <<sep>> \o rest :
             g \in DigitGroupSamples, sep \in SepChars, rest \in JoinedGroups(n - 1) }

\* a verse locator with n digit groups: mark, groups, mark, optional padding
Locators(n) ==
    { <<DDANDA>> \o w1 \o body \o w2 \o <<DDANDA>> \o w3 :
        w1 \in PadSamples, w2 \in PadSamples, w3 \in PadSamples,
        body \in JoinedGroups(n) }

LocatorLines ==
    { prefix \o loc : prefix \in PrefixSamples,
                      loc \in UNION { Locators(n) : n \in 1..MaxGroups } }

\* characters of the strings handed to normalise_slug
SlugAlphabet == { "a", "A", "Z", "7", "-", "_" }

\* most chapter files below the data directory
MaxFiles == 2
\* most runs of main in a behaviour
MaxRuns == 2
\* most records in the chapter handed to process_file on its own
MaxEntries == 3
\* most lines of one such record
MaxEntryLines == 5

NoOutcome == [kind |-> "nothing", path |-> <<>>, content |-> <<>>]

\* a file's content: whether json.loads accepts it, and the value it yields
FileOf(parses, data) == [parses |-> parses, data |-> data]
PathOf(parent, name) == [parent |-> parent, name |-> name]

\* the map file: missing, unparseable, or holding a payload
MapMissing     == [kind |-> "missing", payload |-> JNull]
MapUnparseable == [kind |-> "unparseable", payload |-> JNull]
MapOf(payload) == [kind |-> "ok", payload |-> payload]

\* a record with a text and a number, and a five-line record with no number
RecordA == JMap(<< <<<<"t","e","x","t">>, JStr(<<"r","a","\n","m","a">>)>>, <<<<"n","u","m","b","e","r">>, JInt(1)>> >>)
RecordB == JList(<< JStr(<<"a">>), JStr(<<"b">>), JStr(<<"c">>), JStr(<<"d">>), JStr(<<"e","%">>) >>)
DocTwoVerses == JList(<< RecordA, RecordB >>)
DocWrapped   == JMap(<< <<<<"s","h","l","o","k","a","s">>, JList(<< JStr(<<"o","m">>) >>)>> >>)
DocNoVerse   == JList(<< JMap(<< <<<<"t","e","x","t">>, JNull>> >>) >>)
\* one verse whose lines carry verse-end marks and a verse locator
DocMarked    == JList(<< JStr(<<"r","a"," ",DANDA,"\n","m","a"," ",DDANDA,"DEV1","-","DEV2",DDANDA>>) >>)

SampleFiles ==
    (PathOf(<<"1","-","b","a","l","a">>, <<"s","a","r","g","a","-","0","0","1",".","j","s","o","n">>)          :> FileOf(TRUE, DocTwoVerses)) @@
    (PathOf(<<"1","_","b","a","l","a">>, <<"1",".","j","s","o","n">>)                  :> FileOf(TRUE, DocWrapped)) @@
    (PathOf(<<"2","-","a","y","o","d","h","y","a","-","k","a","n","d","a">>, <<"s","a","r","g","a","-","0","0","2",".","j","s","o","n">>) :> FileOf(FALSE, JNull)) @@
    (PathOf(<<"3","-","a","r","a","n","y","a">>, <<"n","o","t","e","s",".","j","s","o","n">>)            :> FileOf(TRUE, DocWrapped)) @@
    (PathOf(<<"3","-","a","r","a","n","y","a">>, <<"r","a","m","a","y","a","n","a","_","m","a","p",".","j","s","o","n">>)     :> FileOf(TRUE, DocWrapped)) @@
    (PathOf(<<"3","-","a","r","a","n","y","a">>, <<"s","a","r","g","a","-","0","0","5",".","j","s","o","n">>)        :> FileOf(TRUE, DocNoVerse)) @@
    (PathOf(<<"3","-","a","r","a","n","y","a">>, <<"s","a","r","g","a","-","0","0","7",".","j","s","o","n">>)        :> FileOf(TRUE, DocMarked)) @@
    (PathOf(<<"k","a","n","d","a">>, <<"s","a","r","g","a","-","0","0","3",".","j","s","o","n">>)           :> FileOf(TRUE, DocWrapped))

\* a parent declaring the book, its chapters declaring only their own number
PayloadNested ==
    JList(<< JMap(<< <<<<"b","o","o","k">>, JInt(3)>>,
                     <<<<"s","a","r","g","a","s">>, JList(<<
                         JMap(<< <<<<"s","a","r","g","a">>, JInt(7)>>,
                                 <<<<"s","l","u","g">>, JStr(<<"a","r","a","n","y","a","-","s","a","r","g","a","-","0","0","7">>)>>,
                                 <<<<"t","i","t","l","e">>, JStr(<<"V","a","n","a">>)>> >>),
                         JMap(<< <<<<"s","a","r","g","a">>, JInt(7)>>,
                                 <<<<"t","i","t","l","e">>, JStr(<<"L","a","t","e","r">>)>> >>) >>)>> >>) >>)
\* a flat list keyed by numbers only
PayloadFlat ==
    JList(<< JMap(<< <<<<"K","a","n","d","a">>, JStr(<<"1">>)>>, <<<<"S","a","r","g","a">>, JInt(1)>>,
                     <<<<"n","a","m","e">>, JStr(<<" ","B","a","l","a","_","1"," ">>)>> >>) >>)

SampleMaps == { MapMissing, MapUnparseable, MapOf(PayloadNested), MapOf(PayloadFlat) }

\* the chapter a list of (line count, number) records stands for
LineText(k) == <<LowerSeq[k]>>
RecordDoc(record) ==
    LET text == <<<<"t","e","x","t">>, JList([k \in 1..record.nlines |-> JStr(LineText(k))])>>
    IN  IF record.number.some
        THEN JMap(<< text, <<<<"n","u","m","b","e","r">>, JInt(record.number.v)>> >>)
        ELSE JMap(<< text >>)
RecordsDoc(records) == JList([i \in DOMAIN records |-> RecordDoc(records[i])])

SampleRecords ==
    [nlines : 0..MaxEntryLines, number : {None, Some(7)}]

TexPath == PathOf(<<"1","-","b","a","l","a">>, <<"s","a","r","g","a","-","0","0","2",".","j","s","o","n">>)

-----------------------------------------------------------------------------
(* Specification of build_macro_segments: one call on a chosen verse *)

IdleBms == bms_lines = <<>> /\ bms_segments = <<>> /\ bms_calls = 0
IdleCsl == csl_line = <<>> /\ csl_outs = <<>>
IdleNs  == ns_value = <<>> /\ ns_outs = <<>>
IdleTex == tex_records = <<>> /\ tex_out = NoOutcome /\ tex_calls = 0
IdleDriver ==
    /\ data_dir_exists = FALSE /\ data_files = <<>> /\ map_file = MapMissing
    /\ out_files = <<>> /\ args_overwrite = FALSE /\ pc = "idle"
    /\ run_title_index = EmptyTitleIndex /\ queue = <<>> /\ file_idx = 1
    /\ processed = 0 /\ exit_status = 0 /\ runs = 0 /\ clock = 0
    /\ written = {} /\ last = "nothing"

\* chapter nodes in a top-level list
FlatShape == [outer |-> None, parent |-> None, depth |-> 0]
IdleTi == ti_nodes = <<>> /\ ti_shape = FlatShape /\ ti_index = EmptyTitleIndex /\ ti_calls = 0
IdleEsc == esc_values = <<>> /\ esc_outs = <<>>
IdleEsl == esl_fields = <<>> /\ esl_lines = <<>> /\ esl_calls = 0
IdleWs == ws_records = <<>> /\ ws_out = <<>> /\ ws_calls = 0
IdleMore == IdleTi /\ IdleEsc /\ IdleEsl /\ IdleWs

InitSegments ==
    /\ bms_lines \in SeqsUpTo(LineSamples, MaxLines)
    /\ bms_segments = <<>>
    /\ bms_calls = 0
    /\ IdleCsl /\ IdleNs /\ IdleTex /\ IdleDriver /\ IdleMore

CallBuildMacroSegments ==
    /\ bms_calls = 0
    /\ bms_segments' = build_macro_segments(bms_lines)
    /\ bms_calls' = 1
    /\ UNCHANGED <<bms_lines, cslVars, nsVars, texVars, driverVars, moreVars>>

NextSegments == CallBuildMacroSegments

SpecSegments == InitSegments /\ [][NextSegments]_vars

-----------------------------------------------------------------------------
(* Specification of clean_shloka_line: the line is cleaned, then the result
   is cleaned again *)

InitClean ==
    /\ csl_line \in SeqsUpTo(CleanAlphabet, MaxLineLen) \cup LocatorLines
    /\ csl_outs = <<>>
    /\ IdleBms /\ IdleNs /\ IdleTex /\ IdleDriver /\ IdleMore

CallClean ==
    /\ Len(csl_outs) = 0
    /\ csl_outs' = <<clean_shloka_line(csl_line)>>
    /\ UNCHANGED <<csl_line, bmsVars, nsVars, texVars, driverVars, moreVars>>

CallCleanAgain ==
    /\ Len(csl_outs) = 1
    /\ csl_outs' = Append(csl_outs, clean_shloka_line(csl_outs[1]))
    /\ UNCHANGED <<csl_line, bmsVars, nsVars, texVars, driverVars, moreVars>>

NextClean == CallClean \/ CallCleanAgain

SpecClean == InitClean /\ [][NextClean]_vars

-----------------------------------------------------------------------------
(* Specification of normalise_slug: the value is normalised, then the result
   is normalised again *)

InitSlug ==
    /\ ns_value \in SeqsUpTo(SlugAlphabet, MaxSlugLen)
    /\ ns_outs = <<>>
    /\ IdleBms /\ IdleCsl /\ IdleTex /\ IdleDriver /\ IdleMore

CallNormalise ==
    /\ Len(ns_outs) = 0
    /\ ns_outs' = <<normalise_slug(ns_value)>>
    /\ UNCHANGED <<ns_value, bmsVars, cslVars, texVars, driverVars, moreVars>>

CallNormaliseAgain ==
    /\ Len(ns_outs) = 1
    /\ ns_outs' = Append(ns_outs, normalise_slug(ns_outs[1]))
    /\ UNCHANGED <<ns_value, bmsVars, cslVars, texVars, driverVars, moreVars>>

NextSlug == CallNormalise \/ CallNormaliseAgain

SpecSlug == InitSlug /\ [][NextSlug]_vars

-----------------------------------------------------------------------------
(* Specification of process_file on one chapter: a chapter of chosen records
   is processed once, with no title index and an empty output directory *)

InitTex ==
    /\ tex_records \in SeqsUpTo(SampleRecords, MaxEntries)
    /\ tex_out = NoOutcome
    /\ tex_calls = 0
    /\ IdleBms /\ IdleCsl /\ IdleNs /\ IdleDriver /\ IdleMore

CallProcessFile ==
    /\ tex_calls = 0
    /\ tex_out' = process_file(TexPath, FileOf(TRUE, RecordsDoc(tex_records)),
                               <<>>, EmptyTitleIndex, FALSE, 0)
    /\ tex_calls' = 1
    /\ UNCHANGED <<tex_records, bmsVars, cslVars, nsVars, driverVars, moreVars>>

NextTex == CallProcessFile

SpecTex == InitTex /\ [][NextTex]_vars

-----------------------------------------------------------------------------
(* Specification of main: up to MaxRuns runs over a fixed data directory and
   map file, each run with its own --overwrite flag *)

\* the subsets of the sample files with at most n members
RECURSIVE FileSets(_)
FileSets(n) ==
    IF n = 0 THEN { {} }
    ELSE FileSets(n - 1) \cup
         { s \cup {p} : s \in FileSets(n - 1), p \in DOMAIN SampleFiles }

Init ==
    /\ data_dir_exists \in BOOLEAN
    /\ \E paths \in FileSets(MaxFiles) :
          /\ data_dir_exists \/ paths = {}
          /\ data_files = [p \in paths |-> SampleFiles[p]]
    /\ map_file \in SampleMaps
    /\ out_files = <<>>
    /\ args_overwrite = FALSE
    /\ pc = "idle"
    /\ run_title_index = EmptyTitleIndex
    /\ queue = <<>>
    /\ file_idx = 1
    /\ processed = 0
    /\ exit_status = 0
    /\ runs = 0
    /\ clock = 0
    /\ written = {}
    /\ last = "nothing"
    /\ IdleBms /\ IdleCsl /\ IdleNs /\ IdleTex /\ IdleMore

environment == <<data_dir_exists, data_files, map_file>>

\* main is started (lines 530-539): the arguments are parsed, run is entered
Main(flag) ==
    /\ pc \in {"idle", "exited"}
    /\ runs < MaxRuns
    /\ runs' = runs + 1
    /\ args_overwrite' = flag
    /\ pc' = "map"
    /\ run_title_index' = EmptyTitleIndex
    /\ queue' = <<>>
    /\ file_idx' = 1
    /\ processed' = 0
    /\ written' = {}
    /\ last' = "nothing"
    /\ clock' = clock + 1
    /\ UNCHANGED <<environment, out_files, exit_status>>
    /\ UNCHANGED <<bmsVars, cslVars, nsVars, texVars, moreVars>>

\* TitleIndex.from_map_file (lines 48-61), then the loop of run is entered
\* over iter_data_files (line 489)
LoadMap ==
    /\ pc = "map"
    /\ IF map_file.kind = "unparseable"
       THEN \* raise SystemExit("Unable to parse map file ...")
            /\ pc' = "exited"
            /\ exit_status' = 1
            /\ UNCHANGED <<run_title_index, queue>>
       ELSE /\ run_title_index' =
                  IF map_file.kind = "missing" THEN EmptyTitleIndex
                  ELSE scan(EmptyTitleIndex, map_file.payload, None)
            /\ queue' = iter_data_files(data_dir_exists, DOMAIN data_files)
            /\ pc' = "loop"
            /\ UNCHANGED exit_status
    /\ UNCHANGED <<environment, out_files, args_overwrite, file_idx, processed,
                   runs, clock, written, last>>
    /\ UNCHANGED <<bmsVars, cslVars, nsVars, texVars, moreVars>>

\* one iteration of the loop of run (lines 489-491): process_file on the
\* next file, and the count of its truthy results
ProcessNext ==
    /\ pc = "loop"
    /\ file_idx <= Len(queue)
    /\ LET path    == queue[file_idx]
           outcome == process_file(path, data_files[path], out_files,
                                   run_title_index, args_overwrite, clock)
       IN  /\ last' = outcome.kind
           /\ clock' = clock + 1
           /\ CASE outcome.kind = "exit" ->
                     \* SystemExit leaves run and main
                     /\ pc' = "exited"
                     /\ exit_status' = 1
                     /\ UNCHANGED <<out_files, written, processed, file_idx>>
                [] outcome.kind = "none" ->
                     /\ file_idx' = file_idx + 1
                     /\ UNCHANGED <<out_files, written, processed, pc, exit_status>>
                [] outcome.kind = "skip" ->
                     /\ processed' = processed + 1
                     /\ file_idx' = file_idx + 1
                     /\ UNCHANGED <<out_files, written, pc, exit_status>>
                [] outcome.kind = "write" ->
                     /\ out_files' = [p \in DOMAIN out_files \cup {outcome.path} |->
                                        IF p = outcome.path THEN outcome.content
                                        ELSE out_files[p]]
                     /\ written' = written \cup {outcome.path}
                     /\ processed' = processed + 1
                     /\ file_idx' = file_idx + 1
                     /\ UNCHANGED <<pc, exit_status>>
    /\ UNCHANGED <<environment, args_overwrite, run_title_index, queue, runs>>
    /\ UNCHANGED <<bmsVars, cslVars, nsVars, texVars, moreVars>>

\* the loop is over: run returns processed, main exits with 0 if it is
\* non-zero and with 1 otherwise (lines 493-494, 540)
Finish ==
    /\ pc = "loop"
    /\ file_idx > Len(queue)
    /\ exit_status' = IF processed # 0 THEN 0 ELSE 1
    /\ pc' = "exited"
    /\ UNCHANGED <<environment, out_files, args_overwrite, run_title_index, queue,
                   file_idx, processed, runs, clock, written, last>>
    /\ UNCHANGED <<bmsVars, cslVars, nsVars, texVars, moreVars>>

Next ==
    \/ \E flag \in BOOLEAN : Main(flag)
    \/ LoadMap
    \/ ProcessNext
    \/ Finish

Spec == Init /\ [][Next]_vars

-----------------------------------------------------------------------------
(* Claims about build_macro_segments, clean_shloka_line, normalise_slug *)

\* C4: for every non-empty line sequence, the segments returned by
\* build_macro_segments concatenate to the input, each has 1 to 3 lines and
\* the macro name of its own line count, and when there are more than 3
\* lines every segment but possibly the last has exactly 2 lines.
C4_SegmentsPartition ==
    (bms_calls = 1 /\ bms_lines # <<>>) =>
        /\ ConcatAll([i \in DOMAIN bms_segments |-> bms_segments[i][2]]) = bms_lines
        /\ \A i \in DOMAIN bms_segments :
              /\ Len(bms_segments[i][2]) \in 1..3
              /\ bms_segments[i][1] =
                    CASE Len(bms_segments[i][2]) = 1 -> "onelineshloka"
                      [] Len(bms_segments[i][2]) = 2 -> "twolineshloka"
                      [] Len(bms_segments[i][2]) = 3 -> "threelineshloka"
        /\ Len(bms_lines) > 3 =>
              \A i \in 1..(Len(bms_segments) - 1) : Len(bms_segments[i][2]) = 2

\* a seven-line verse has been segmented into 2 + 2 + 3
C4_Witness ==
    /\ bms_calls = 1
    /\ Len(bms_lines) = 7
    /\ Len(bms_segments) = 3
    /\ Len(bms_segments[3][2]) = 3

\* C8: clean_shloka_line is idempotent on its own output, and its output
\* holds no single or double verse-end mark and no leading or trailing
\* white space.
C8_CleanIdempotent ==
    /\ Len(csl_outs) >= 1 =>
          /\ Count(csl_outs[1], {DANDA, DDANDA}) = 0
          /\ csl_outs[1] # <<>> =>
                /\ csl_outs[1][1] \notin SpaceChars
                /\ csl_outs[1][Len(csl_outs[1])] \notin SpaceChars
    /\ Len(csl_outs) = 2 => csl_outs[2] = csl_outs[1]

\* a line with marks, padding and a locator has been cleaned twice
C8_Witness ==
    /\ Len(csl_outs) = 2
    /\ csl_line = <<"a", " ", DDANDA, "DEV1", "-", "DEV1", DDANDA, " ">>
    /\ csl_outs[1] = <<"a">>

IsSuffix(t, s) ==
    Len(t) <= Len(s) /\ SubSeq(s, Len(s) - Len(t) + 1, Len(s)) = t

\* the cleaned line keeps none of the digits of a trailing locator `loc`
LocatorGone(loc) ==
    IsSuffix(loc, csl_line) =>
        Count(csl_outs[1], DevDigitChars)
            = Count(SubSeq(csl_line, 1, Len(csl_line) - Len(loc)), DevDigitChars)

C10_SlugIdempotent ==
    /\ Len(ns_outs) >= 1 =>
          LET r == ns_outs[1] IN
          /\ \A i \in DOMAIN r : r[i] \in LowerChars \cup DigitChars \cup {"-"}
          /\ \A i \in 1..(Len(r) - 1) : ~(r[i] = "-" /\ r[i + 1] = "-")
          /\ r # <<>> => (r[1] # "-" /\ r[Len(r)] # "-")
    /\ Len(ns_outs) = 2 => ns_outs[2] = ns_outs[1]

\* a camel-case value with a separator run has been normalised twice
C10_Witness ==
    /\ Len(ns_outs) = 2
    /\ ns_value = <<"_", "a", "Z", "_", "_">>
    /\ ns_outs[1] = <<"a", "-", "z">>

-----------------------------------------------------------------------------
(* Claims about process_file on one chapter *)

\* the records of the chapter that have lines, in source order
TexVerses == SelectSeq(tex_records, LAMBDA r : r.nlines > 0)

\* the lines of the written text
TexOutLines == Split(tex_out.content, "\n")

\* the lines of the written text that hold a macro argument
TexArgLines == SelectSeq(TexOutLines, LAMBDA l : l # <<>> /\ l[1] = "{")

\* how many argument lines precede those of verse j
RECURSIVE LinesBefore(_)
LinesBefore(j) == IF j <= 1 THEN 0 ELSE LinesBefore(j - 1) + TexVerses[j - 1].nlines

\* what follows the closing brace of an argument line
TrailerOf(l) ==
    LET braces == { i \in DOMAIN l : l[i] = "}" }
        close  == CHOOSE i \in braces : \A k \in braces : k <= i
    IN  SubSeq(l, close + 1, Len(l))

\* C5: every rendered verse carries exactly one identifier comment, on the
\* last line of its final segment and on no earlier line, whatever its line
\* count.
C5_OneCommentPerVerse ==
    (tex_calls = 1 /\ tex_out.kind = "write") =>
        LET verses == TexVerses
            args   == TexArgLines
        IN  /\ Len(args) = LinesBefore(Len(verses) + 1)
            /\ \A j \in DOMAIN verses : \A k \in 1..verses[j].nlines :
                  LET trailer == TrailerOf(args[LinesBefore(j) + k])
                  IN  IF k = verses[j].nlines
                      THEN Len(trailer) > 2 /\ SubSeq(trailer, 1, 2) = <<" ", "%">>
                      ELSE trailer = <<>>

\* a five-line verse (two segments) and a one-line verse have been rendered
C5_Witness ==
    /\ tex_calls = 1
    /\ tex_out.kind = "write"
    /\ Len(tex_records) = 2
    /\ tex_records[1].nlines = 5
    /\ tex_records[2].nlines = 1

\* the verse part "007" of an identifier, for a number below ten
VerseText(n) == <<"0", "0", DigitSeq[n + 1]>>

\* C6: the verse part of a record's identifier is its declared number when
\* it has one, and otherwise its 1-based position among the records of the
\* chapter that have lines.
C6_VerseNumbering ==
    (tex_calls = 1 /\ tex_out.kind = "write") =>
        LET verses == TexVerses
            args   == TexArgLines
        IN  \A j \in DOMAIN verses :
                TrailerOf(args[LinesBefore(j + 1)]) =
                    <<" ", "%", "1", "-", "0", "0", "2", "-">> \o
                    VerseText(IF verses[j].number.some THEN verses[j].number.v ELSE j)

\* a record without lines came first, then two records without a number
C6_Witness ==
    /\ tex_calls = 1
    /\ tex_out.kind = "write"
    /\ Len(tex_records) = 3
    /\ tex_records[1].nlines = 0
    /\ tex_records[2].nlines = 4 /\ ~tex_records[2].number.some
    /\ tex_records[3].nlines = 2 /\ ~tex_records[3].number.some

-----------------------------------------------------------------------------
(* Claims about main and run *)

\* the file parses and holds at least one record with lines
HasVerses(path) ==
    /\ data_files[path].parses
    /\ keep_entries(find_shlokas(data_files[path].data)) # <<>>

\* the directory and file names follow the naming convention
WellNamed(path) ==
    extract_kanda_metadata(path).some /\ extract_sarga_number(path).some

\* where the chapter's output goes
OutputPath(path) ==
    << extract_kanda_metadata(path).v[3],
       extract_kanda_metadata(path).v[2] \o <<"-","s","a","r","g","a","-">>
          \o Fmt03d(extract_sarga_number(path).v) \o <<".","t","e","x">> >>

Malformed(path) == ~data_files[path].parses \/ ~WellNamed(path)

\* C1: when one chapter file of the sequence is malformed, every later
\* chapter file is still processed and, if it has verses, written.
C1_LaterFilesStillProcessed ==
    (pc = "exited" /\ map_file.kind # "unparseable") =>
        \A i \in DOMAIN queue : Malformed(queue[i]) =>
            \A k \in (i + 1)..Len(queue) :
                /\ k < file_idx
                /\ (HasVerses(queue[k]) /\ WellNamed(queue[k]))
                      => OutputPath(queue[k]) \in DOMAIN out_files

\* C2: a call of process_file for a chapter whose output file exists, with
\* overwrite not set, leaves every output file as it was.
C2_ExistingOutputUntouched ==
    [][ ( /\ pc = "loop"
          /\ file_idx <= Len(queue)
          /\ ~args_overwrite
          /\ WellNamed(queue[file_idx])
          /\ OutputPath(queue[file_idx]) \in DOMAIN out_files )
        => out_files' = out_files ]_vars

\* a second run without overwrite has skipped a file and written nothing
C2_Witness ==
    /\ runs = 2
    /\ ~args_overwrite
    /\ last = "skip"
    /\ written = {}
    /\ out_files # <<>>

\* C3: the exit status is non-zero whenever the run wrote no output file.
C3_NothingWrittenExitsNonZero ==
    (pc = "exited" /\ written = {}) => exit_status # 0

\* the placeholder comment stands where the title heading would
HasPlaceholder(content) ==
    LET lines == Split(content, "\n")
        mark  == <<"%"," ","T","i","t","l","e"," ","n","o","t"," ",
                   "a","v","a","i","l","a","b","l","e"," ","f","o","r"," ">>
    IN  Len(lines) >= 3 /\ Len(lines[3]) >= Len(mark)
        /\ SubSeq(lines[3], 1, Len(mark)) = mark

\* the parts of C7 that do not depend on the chapter files being well formed:
\* an unparseable map file ends the run before any chapter file is touched,
\* a missing one gives an empty index and placeholder titles
C7_MetadataHandling ==
    /\ (pc = "exited" /\ map_file.kind = "unparseable") =>
          (written = {} /\ file_idx = 1 /\ last = "nothing" /\ exit_status # 0)
    /\ (pc \in {"loop", "exited"} /\ map_file.kind = "missing") =>
          /\ run_title_index = EmptyTitleIndex
          /\ \A p \in written : HasPlaceholder(out_files[p])

\* C7: the metadata file is handled before any chapter file: unparseable, it
\* halts the run with no output written; missing, the index is empty and the
\* run goes on to process every chapter file, each rendered with the
\* placeholder.
C7_MetadataFirst ==
    /\ C7_MetadataHandling
    /\ (pc = "exited" /\ map_file.kind = "missing") => file_idx > Len(queue)

-----------------------------------------------------------------------------
(* Metadata trees handed to TitleIndex._scan *)

\* most chapter nodes in a metadata tree
MaxNodes == 2

\* a chapter node: the fields it declares
NodeSamples ==
    [ slug  : {None, Some(<<"p","a","n","c","h","a","v","a","t","i">>), Some(<<"P","a","n","c","h","a","v","a","t","i">>)},
      kanda : {None, Some(1)},
      sarga : {Some(5)},
      title : {<<"P","a","n","c","h","a","v","a","t","i">>, <<"O","t","h","e","r">>} ]

\* where the chapter nodes sit: below an outer mapping that may declare a
\* book, below a parent mapping that may declare one, `depth` mappings
\* without a book (each held in a list) further down
ShapeSamples ==
    { FlatShape,
      [outer |-> None,    parent |-> Some(3), depth |-> 0],
      [outer |-> None,    parent |-> Some(3), depth |-> 2],
      [outer |-> Some(1), parent |-> Some(3), depth |-> 1],
      [outer |-> Some(1), parent |-> None,    depth |-> 1] }

\* the JSON mapping of a chapter node
NodeDoc(node) ==
    JMap( (IF node.sarga.some THEN << <<<<"s","a","r","g","a">>, JInt(node.sarga.v)>> >> ELSE <<>>)
       \o (IF node.slug.some  THEN << <<<<"s","l","u","g">>, JStr(node.slug.v)>> >>   ELSE <<>>)
       \o << <<<<"t","i","t","l","e">>, JStr(node.title)>> >>
       \o (IF node.kanda.some THEN << <<<<"k","a","n","d","a">>, JStr(IntStr(node.kanda.v))>> >> ELSE <<>>) )

RECURSIVE WrapDoc(_, _)
WrapDoc(doc, depth) ==
    IF depth = 0 THEN doc
    ELSE JList(<< JMap(<< <<<<"n","o","t","e">>, JStr(<<"x">>)>>, <<<<"i","t","e","m","s">>, WrapDoc(doc, depth - 1)>> >>) >>)

\* the JSON document of a metadata tree
TreeDoc(nodes, shape) ==
    LET leaves == JList([i \in DOMAIN nodes |-> NodeDoc(nodes[i])])
        inner  == WrapDoc(leaves, shape.depth)
        mid    == IF shape.parent.some
                  THEN JMap(<< <<<<"b","o","o","k">>, JInt(shape.parent.v)>>, <<<<"s","a","r","g","a","s">>, inner>> >>)
                  ELSE inner
    IN  IF shape.outer.some
        THEN JMap(<< <<<<"k","a","n","d","a","_","n","u","m","b","e","r">>, JInt(shape.outer.v)>>, <<<<"k","a","n","d","a","s">>, JList(<<mid>>)>> >>)
        ELSE mid

-----------------------------------------------------------------------------
(* Specification of TitleIndex: the index is built from a chosen tree *)

InitIndex ==
    /\ ti_nodes \in SeqsUpTo(NodeSamples, MaxNodes)
    /\ ti_shape \in ShapeSamples
    /\ ti_index = EmptyTitleIndex
    /\ ti_calls = 0
    /\ IdleBms /\ IdleCsl /\ IdleNs /\ IdleTex /\ IdleDriver /\ IdleEsc /\ IdleEsl /\ IdleWs

\* from_map_file, lines 58-61: index = cls({}, {}); index._scan(payload)
CallScan ==
    /\ ti_calls = 0
    /\ ti_index' = scan(EmptyTitleIndex, TreeDoc(ti_nodes, ti_shape), None)
    /\ ti_calls' = 1
    /\ UNCHANGED <<ti_nodes, ti_shape, bmsVars, cslVars, nsVars, texVars, driverVars, escVars, eslVars, wsVars>>

NextIndex == CallScan

SpecIndex == InitIndex /\ [][NextIndex]_vars

-----------------------------------------------------------------------------
(* Claims about TitleIndex *)

\* the book number the chapter nodes inherit from the mappings above them
InheritedBook == IF ti_shape.parent.some THEN ti_shape.parent ELSE ti_shape.outer

NodeBook(i) == IF ti_nodes[i].kanda.some THEN ti_nodes[i].kanda ELSE InheritedBook
HasSlug(i) == ti_nodes[i].slug.some
HasPair(i) == NodeBook(i).some
\* every sample slug is "panchavati" up to case
NodeSlugKey(i) == <<"p","a","n","c","h","a","v","a","t","i">>
NodePair(i) == <<NodeBook(i).v, ti_nodes[i].sarga.v>>

\* node i is the first in document order to carry its slug, its number pair
FirstSlug(i) == HasSlug(i) /\ \A j \in 1..(i - 1) : ~HasSlug(j)
FirstPair(i) == HasPair(i) /\ \A j \in 1..(i - 1) : HasPair(j) => NodePair(j) # NodePair(i)

\* the slug a lookup for node i is made with; one no node carries when the
\* node declares none
QuerySlug(i) == IF HasSlug(i) THEN ti_nodes[i].slug.v ELSE <<"u","n","k","n","o","w","n">>

\* TitleIndex.get with the slug, book and chapter of node i
GetFor(i) ==
    IF HasPair(i)
    THEN TitleIndex_get(ti_index, QuerySlug(i), NodePair(i)[1], NodePair(i)[2])
    ELSE TitleIndex_get(ti_index, QuerySlug(i), 0, 0)

\* both tables hold the first-seen title of every key
FirstSeenKept ==
    \A i \in DOMAIN ti_nodes :
        /\ FirstSlug(i) =>
              /\ NodeSlugKey(i) \in DOMAIN ti_index.by_slug
              /\ ti_index.by_slug[NodeSlugKey(i)] = ti_nodes[i].title
        /\ FirstPair(i) =>
              /\ NodePair(i) \in DOMAIN ti_index.by_numbers
              /\ ti_index.by_numbers[NodePair(i)] = ti_nodes[i].title

\* C11 as stated: each key maps to the title of the first node carrying it,
\* and get with the slug, book and chapter of that first node returns that
\* title.
C11_FirstSeenReturned ==
    ti_calls = 1 =>
        /\ FirstSeenKept
        /\ \A i \in DOMAIN ti_nodes :
              (FirstSlug(i) \/ FirstPair(i)) => GetFor(i) = Some(ti_nodes[i].title)

\* C11 amended: each key maps to the title of the first node carrying it;
\* get returns the first-seen title of the slug it is given when that slug is
\* in the index, and the first-seen title of the number pair only otherwise.
C11_FirstSeenWins ==
    ti_calls = 1 =>
        /\ FirstSeenKept
        /\ \A i \in DOMAIN ti_nodes :
              /\ HasSlug(i) =>
                    \A j \in DOMAIN ti_nodes :
                        FirstSlug(j) => GetFor(i) = Some(ti_nodes[j].title)
              /\ (FirstPair(i) /\ ~HasSlug(i)) => GetFor(i) = Some(ti_nodes[i].title)

\* the second node is the first of its number pair but not of its slug: the
\* lookup with its keys returns the title of the first node
C11_Witness ==
    /\ ti_calls = 1
    /\ ti_shape = [outer |-> None, parent |-> Some(3), depth |-> 0]
    /\ ti_nodes = << [slug |-> Some(<<"p","a","n","c","h","a","v","a","t","i">>), kanda |-> Some(1), sarga |-> Some(5),
                      title |-> <<"P","a","n","c","h","a","v","a","t","i">>],
                     [slug |-> Some(<<"P","a","n","c","h","a","v","a","t","i">>), kanda |-> None, sarga |-> Some(5),
                      title |-> <<"O","t","h","e","r">>] >>
    /\ ti_index.by_numbers[<<3, 5>>] = <<"O","t","h","e","r">>
    /\ TitleIndex_get(ti_index, <<"P","a","n","c","h","a","v","a","t","i">>, 3, 5) = Some(<<"P","a","n","c","h","a","v","a","t","i">>)

\* C12: a chapter node with a chapter number and a title but no book number
\* is registered under the book number of its nearest ancestor mapping that
\* declared one, at any depth and through lists; lookups by that pair and by
\* its slug return its title when no earlier node carries the same key.
C12_InheritedBook ==
    ti_calls = 1 =>
        /\ DOMAIN ti_index.by_numbers = { NodePair(i) : i \in { k \in DOMAIN ti_nodes : HasPair(k) } }
        /\ \A i \in DOMAIN ti_nodes :
              (~ti_nodes[i].kanda.some /\ InheritedBook.some) =>
                  /\ NodePair(i) = <<InheritedBook.v, 5>>
                  /\ FirstPair(i) =>
                        /\ ti_index.by_numbers[<<InheritedBook.v, 5>>] = ti_nodes[i].title
                        /\ TitleIndex_get(ti_index, <<"u","n","k","n","o","w","n">>, InheritedBook.v, 5)
                              = Some(ti_nodes[i].title)
                  /\ FirstSlug(i) =>
                        TitleIndex_get(ti_index, ti_nodes[i].slug.v, InheritedBook.v, 5)
                              = Some(ti_nodes[i].title)

\* the tree of the scenario: a parent declaring book 3, a child declaring
\* sarga 5, slug "panchavati" and title "Panchavati"
C12_Witness ==
    /\ ti_calls = 1
    /\ ti_shape = [outer |-> None, parent |-> Some(3), depth |-> 0]
    /\ ti_nodes = << [slug |-> Some(<<"p","a","n","c","h","a","v","a","t","i">>), kanda |-> None, sarga |-> Some(5),
                      title |-> <<"P","a","n","c","h","a","v","a","t","i">>] >>
    /\ TitleIndex_get(ti_index, <<"u","n","k","n","o","w","n">>, 3, 5) = Some(<<"P","a","n","c","h","a","v","a","t","i">>)
    /\ TitleIndex_get(ti_index, <<"p","a","n","c","h","a","v","a","t","i">>, 0, 0) = Some(<<"P","a","n","c","h","a","v","a","t","i">>)

-----------------------------------------------------------------------------
(* Specification of tex_escape: two chosen strings are escaped *)

\* longest arbitrary string handed to tex_escape
MaxEscLen == 2

\* characters of the strings handed to tex_escape
EscapeAlphabet == { "&", "~", "{", "\\", "a" }

\* strings that spell out an escaped form themselves
EscapeLiterals ==
    { <<"\\">> \o <<"t","e","x","t","a","s","c","i","i","t","i","l","d","e">>, <<"\\">> \o <<"t","e","x","t","a","s","c","i","i","t","i","l","d","e","{","}">>,
      <<"\\">> \o <<"t","e","x","t","a","s","c","i","i","c","i","r","c","u","m","{","}">>, <<"^","_","%">> }

EscapeSamples == SeqsUpTo(EscapeAlphabet, MaxEscLen) \cup EscapeLiterals

InitEscape ==
    /\ esc_values \in EscapeSamples \X EscapeSamples
    /\ esc_outs = <<>>
    /\ IdleBms /\ IdleCsl /\ IdleNs /\ IdleTex /\ IdleDriver /\ IdleTi /\ IdleEsl /\ IdleWs

CallEscape ==
    /\ esc_outs = <<>>
    /\ esc_outs' = <<tex_escape(esc_values[1]), tex_escape(esc_values[2])>>
    /\ UNCHANGED <<esc_values, bmsVars, cslVars, nsVars, texVars, driverVars, tiVars, eslVars, wsVars>>

NextEscape == CallEscape

SpecEscape == InitEscape /\ [][NextEscape]_vars

-----------------------------------------------------------------------------
(* Claims about tex_escape *)

SpecialChars == { "&", "%", "$", "#", "_", "{", "}", "~", "^" }

\* how many backslashes stand directly before position p of s
RECURSIVE BackslashRun(_, _)
BackslashRun(s, p) ==
    IF p > 1 /\ s[p - 1] = "\\" THEN 1 + BackslashRun(s, p - 1) ELSE 0

\* position p of s is in the empty group {} that ends a macro form
InMacroTail(s, p) ==
    \/ s[p] = "{" /\ p < Len(s) /\ s[p + 1] = "}" /\ BackslashRun(s, p) = 0
    \/ s[p] = "}" /\ p > 1 /\ s[p - 1] = "{" /\ BackslashRun(s, p - 1) = 0

\* no special character of s is left for TeX to act on: each is escaped by a
\* backslash of its own, or closes a macro form
NoneUnescaped(s) ==
    \A p \in DOMAIN s :
        s[p] \in SpecialChars => (BackslashRun(s, p) % 2 = 1 \/ InMacroTail(s, p))

StartsWith(s, t) == Len(t) <= Len(s) /\ SubSeq(s, 1, Len(t)) = t

\* the input an escaped text was made from, read from the left
RECURSIVE Unescape(_)
Unescape(s) ==
    IF s = <<>> THEN <<>>
    ELSE IF Len(s) >= 2 /\ s[1] = "\\" /\ s[2] \in { "&", "%", "$", "#", "_", "{", "}" }
    THEN <<s[2]>> \o Unescape(SubSeq(s, 3, Len(s)))
    ELSE IF StartsWith(s, <<"\\">> \o <<"t","e","x","t","a","s","c","i","i","t","i","l","d","e","{","}">>)
    THEN <<"~">> \o Unescape(SubSeq(s, 18, Len(s)))
    ELSE IF StartsWith(s, <<"\\">> \o <<"t","e","x","t","a","s","c","i","i","c","i","r","c","u","m","{","}">>)
    THEN <<"^">> \o Unescape(SubSeq(s, 19, Len(s)))
    ELSE <<s[1]>> \o Unescape(Tail(s))

\* each special character is replaced by its form, every other character is
\* copied, and different inputs give different outputs
EscapeFaithful ==
    Len(esc_outs) = 2 =>
        /\ \A n \in 1..2 : Unescape(esc_outs[n]) = esc_values[n]
        /\ esc_values[1] # esc_values[2] => esc_outs[1] # esc_outs[2]

\* C13: for every input string tex_escape leaves no special character of its
\* table unescaped, replaces each by its escaped or macro form, copies every
\* other character, and is injective.
C13_EscapeSafe ==
    /\ EscapeFaithful
    /\ Len(esc_outs) = 2 => \A n \in 1..2 : NoneUnescaped(esc_outs[n])

-----------------------------------------------------------------------------
(* Claims about the path of a verse line from the record to the output *)

VerseEndMarks == { DANDA, DDANDA }

\* C14: every verse line is cleaned before it reaches the macro segmenter:
\* no line handed to build_macro_segments, and no written output, holds a
\* verse-end mark that was in the source record.
C14_LinesCleaned ==
    /\ \A p \in DOMAIN out_files : Count(out_files[p], VerseEndMarks) = 0
    /\ (pc = "loop" /\ file_idx <= Len(queue) /\ data_files[queue[file_idx]].parses) =>
          LET shlokas == keep_entries(find_shlokas(data_files[queue[file_idx]].data))
          IN  \A e \in DOMAIN shlokas : \A k \in DOMAIN shlokas[e].lines :
                  Count(shlokas[e].lines[k], VerseEndMarks) = 0

-----------------------------------------------------------------------------
(* Specification of extract_shloka_lines: one call on a mapping record *)

\* how many of the candidate text fields a record may carry
MaxFields == 3

\* what a field of a record may hold
FieldKinds == { "absent", "null", "number", "mapping", "str", "list" }

\* the fields of the records: the first is the fallback field, the others are
\* candidate text fields in priority order
FieldNames == << <<"l","i","n","e","_","s","a","n","s","k","r","i","t">>, <<"t","e","x","t">>, <<"l","i","n","e","s">>, <<"t","e","x","t","_","l","i","n","e","s">>, <<"s","h","l","o","k","a">>, <<"s","l","o","k","a">> >>

\* the value field n holds; its text tells the fields apart
FieldValue(n, kind) ==
    CASE kind = "null"    -> JNull
      [] kind = "number"  -> JInt(n)
      [] kind = "mapping" -> JMap(<< <<<<"n","o","t","e">>, JStr(<<UpperSeq[n]>>)>> >>)
      [] kind = "str"     -> JStr(<<LowerSeq[n]>>)
      [] kind = "list"    -> JList(<< JStr(<<LowerSeq[n]>>), JStr(<<LowerSeq[n]>>) >>)

\* the lines field n supplies when its value is a string or a list
FieldLines(n, kind) ==
    IF kind = "str" THEN << <<LowerSeq[n]>> >> ELSE << <<LowerSeq[n]>>, <<LowerSeq[n]>> >>

\* the record as a JSON mapping, its fields in reverse order of priority
FieldsDoc(fields) ==
    LET present == SelectSeq([i \in DOMAIN fields |-> Len(fields) + 1 - i],
                             LAMBDA n : fields[n] # "absent")
    IN  JMap([i \in DOMAIN present |->
                <<FieldNames[present[i]], FieldValue(present[i], fields[present[i]])>>])

InitLines ==
    /\ esl_fields \in [1..(MaxFields + 1) -> FieldKinds]
    /\ esl_lines = <<>>
    /\ esl_calls = 0
    /\ IdleBms /\ IdleCsl /\ IdleNs /\ IdleTex /\ IdleDriver /\ IdleTi /\ IdleEsc /\ IdleWs

CallExtractLines ==
    /\ esl_calls = 0
    /\ esl_lines' = extract_shloka_lines(FieldsDoc(esl_fields))
    /\ esl_calls' = 1
    /\ UNCHANGED <<esl_fields, bmsVars, cslVars, nsVars, texVars, driverVars, tiVars, escVars, wsVars>>

NextLines == CallExtractLines

SpecLines == InitLines /\ [][NextLines]_vars

-----------------------------------------------------------------------------
(* Claims about extract_shloka_lines *)

\* the candidate text fields of the record holding a string or a list
ValidCandidates ==
    { n \in 2..Len(esl_fields) : esl_fields[n] \in {"str", "list"} }

\* C15: the first candidate text field, in priority order, whose value is a
\* string or a list supplies the lines, whatever higher-priority fields hold;
\* the "_sanskrit" field supplies them only if no candidate does.
C15_FirstValidWins ==
    esl_calls = 1 =>
        esl_lines =
            IF ValidCandidates # {}
            THEN LET n == CHOOSE c \in ValidCandidates : \A d \in ValidCandidates : c <= d
                 IN  FieldLines(n, esl_fields[n])
            ELSE IF esl_fields[1] \in {"str", "list"}
            THEN FieldLines(1, esl_fields[1])
            ELSE <<>>

-----------------------------------------------------------------------------
(* Specification of write_sarga_tex: one chapter file is rendered *)

\* most lines of a record that stay after cleaning
MaxCleaned == 5
\* most records in a chapter file
MaxSargaRecords == 2

\* a record's text: n verse lines, the last one ending in a verse locator,
\* after a line of marks only when `marks` is set
SargaText(n, marks) ==
    Join(<<"\n">>,
         (IF marks THEN << <<" ", DANDA>> >> ELSE <<>>) \o
         [k \in 1..n |-> IF k = n
                         THEN <<LowerSeq[k], " ", DDANDA, "DEV1", "-", "DEV2", DDANDA>>
                         ELSE <<LowerSeq[k], " ", DANDA>>])

\* a closing record that names the chapter's ordinal
PushpikaRecord ==
    [text |-> <<DDANDA, "i", " ", NAMA, " ", "p", " ", SARGA, VISARGA, " ", DDANDA>>,
     shloka_num |-> None]

SargaRecordSamples ==
    { [text |-> SargaText(n, marks), shloka_num |-> num] :
        n \in 0..MaxCleaned, marks \in BOOLEAN, num \in {None, Some(7)} }
    \cup { PushpikaRecord }

\* get_sarga_title for a book the map does not hold
UnknownTitle == <<"AJNATA">>

InitSarga ==
    /\ ws_records \in SeqsUpTo(SargaRecordSamples, MaxSargaRecords)
    /\ ws_out = <<>>
    /\ ws_calls = 0
    /\ IdleBms /\ IdleCsl /\ IdleNs /\ IdleTex /\ IdleDriver /\ IdleTi /\ IdleEsc /\ IdleEsl

\* write_sarga_tex(1, data/1/1.json)
CallWriteSargaTex ==
    /\ ws_calls = 0
    /\ ws_out' = write_sarga_tex(1, 1, UnknownTitle, ws_records)
    /\ ws_calls' = 1
    /\ UNCHANGED <<ws_records, bmsVars, cslVars, nsVars, texVars, driverVars, tiVars,
                   escVars, eslVars>>

NextSarga == CallWriteSargaTex

SpecSarga == InitSarga /\ [][NextSarga]_vars

-----------------------------------------------------------------------------
(* Claims about write_sarga_tex *)

\* how many brace-delimited groups each verse macro takes
MacroArity ==
    (<<"\\">> \o <<"o","n","e","l","i","n","e","s","h","l","o","k","a">> :> 1) @@ (<<"\\">> \o <<"t","w","o","l","i","n","e","s","h","l","o","k","a">> :> 2) @@
    (<<"\\">> \o <<"t","h","r","e","e","l","i","n","e","s","h","l","o","k","a">> :> 3) @@ (<<"\\">> \o <<"f","o","u","r","l","i","n","e","i","n","d","e","n","t","e","d","s","h","l","o","k","a">> :> 4)

\* how many lines starting with a brace directly follow line i
GroupsAfter(lines, i) ==
    LET stops == { k \in (i + 1)..(Len(lines) + 1) :
                     k = Len(lines) + 1 \/ lines[k] = <<>> \/ lines[k][1] # "{" }
    IN  (CHOOSE k \in stops : \A j \in stops : k <= j) - i - 1

\* C16: in the text write_sarga_tex writes, every verse macro is followed by
\* exactly as many brace-delimited groups as its arity, and every numbered
\* record with a non-empty cleaned line has its macro, whatever its count of
\* cleaned lines.
C16_GroupsMatchArity ==
    ws_calls = 1 =>
        LET lines  == Split(ws_out, "\n")
            macros == { i \in DOMAIN lines : lines[i] \in DOMAIN MacroArity }
            verses == { r \in DOMAIN ws_records :
                          /\ ws_records[r].shloka_num.some
                          /\ clean_lines(record_text(ws_records[r])) # <<>> }
        IN  /\ Cardinality(macros) = Cardinality(verses)
            /\ \A i \in macros : GroupsAfter(lines, i) = MacroArity[lines[i]]

=============================================================================
